---- MODULE Spec2Model ----
(***************************************************************************)
(* TruthScope article-analysis backend                                     *)
(* (src/extension/backend/check_text.py).                                  *)
(*                                                                         *)
(* Strings whose structure matters are sequences of tokens: a URL is a     *)
(* sequence such as <<"http:", "//", "www.", "news.com", "/", "a">>, a     *)
(* model reply is a sequence over WS (one whitespace character), FENCE     *)
(* (three backticks), JSONTAG (the word json) and document tokens.         *)
(* Python values are records with a type tag and the set of keys present.  *)
(***************************************************************************)
EXTENDS Integers, Sequences, FiniteSets, TLC

(***************************************************************************)
(* Bounds of the model                                                     *)
(***************************************************************************)
MaxRequests == 3

\* longest organic_results list of a search answer
MaxItems == 6

\* threads of the server that use the connection pool at the same time
MaxThreads == 6

\* store operations begun in one run of the fine-grained store model
MaxOps == 4

\* pools constructed in one run
MaxPools == 2

Procs == {"r1", "r2"}

(***************************************************************************)
(* Program constants                                                       *)
(***************************************************************************)
VERDICT_REAL == "real"
VERDICT_FAKE == "fake"
VERDICT_NOT_FOUND == "not_found"
DEFAULT_USER_TIER == "free"
FACT_CHECK_CLAIM_LIMIT == 3

(***************************************************************************)
(* Python string helpers on token sequences                                *)
(***************************************************************************)
WS == "ws"
FENCE == "FENCE"
JSONTAG == "json"

StartsWith(s, pre) ==
    /\ Len(s) >= Len(pre)
    /\ SubSeq(s, 1, Len(pre)) = pre

EndsWith(s, suf) ==
    /\ Len(s) >= Len(suf)
    /\ SubSeq(s, Len(s) - Len(suf) + 1, Len(s)) = suf

RemovePrefix(s, pre) ==
    IF StartsWith(s, pre) THEN SubSeq(s, Len(pre) + 1, Len(s)) ELSE s

RemoveSuffix(s, suf) ==
    IF EndsWith(s, suf) THEN SubSeq(s, 1, Len(s) - Len(suf)) ELSE s

RECURSIVE LStrip(_)
LStrip(s) ==
    IF s # <<>> /\ Head(s) = WS THEN LStrip(Tail(s)) ELSE s

RECURSIVE RStrip(_)
RStrip(s) ==
    IF s # <<>> /\ s[Len(s)] = WS THEN RStrip(SubSeq(s, 1, Len(s) - 1)) ELSE s

Strip(s) == RStrip(LStrip(s))

(***************************************************************************)
(* Python values                                                           *)
(***************************************************************************)
VerdictKeys == {"label", "score", "highlights", "reasoning", "fact_check"}

PyValue(type, keys, label, score, highlights, reasoning, fact_check, error, raw) ==
    [type |-> type, keys |-> keys, label |-> label, score |-> score,
     highlights |-> highlights, reasoning |-> reasoning,
     fact_check |-> fact_check, error |-> error, raw_response |-> raw]

NoValue == PyValue("none", {}, "", 0, <<>>, <<>>, <<>>, "", <<>>)

\* scores are in hundredths: 0.0 is 0, 0.5 is 50
VerdictValue(label, score, highlights, reasoning, fact_check) ==
    PyValue("dict", VerdictKeys, label, score, highlights, reasoning, fact_check, "", <<>>)

InvalidUrlVerdict ==
    VerdictValue("LABEL_1", 0, <<>>,
                 <<"The provided URL was invalid or could not be processed.">>, <<>>)

NonNewsVerdict ==
    VerdictValue("LABEL_0", 50, <<>>,
                 <<"The domain does not appear to be a news source and is considered out of scope.">>,
                 <<>>)

CredibleVerdict ==
    VerdictValue("LABEL_0", 87, <<>>, <<"Corroborated by reputable outlets.">>,
                 <<"Google News Search">>)

FakeVerdict ==
    VerdictValue("LABEL_1", 82, <<"quote">>, <<"Key claims were contradicted.">>,
                 <<"BBC News">>)

ErrorValue(msg) ==
    PyValue("dict", {"error"}, "", 0, <<>>, <<>>, <<>>, msg, <<>>)

ErrorValueRaw(msg, raw) ==
    PyValue("dict", {"error", "raw_response"}, "", 0, <<>>, <<>>, <<>>, msg, raw)

(***************************************************************************)
(* JSON documents the model can emit, and json.loads / json.dumps          *)
(***************************************************************************)
JsonDocs ==
    {"DOC_INVALID_URL", "DOC_NON_NEWS", "DOC_CREDIBLE", "DOC_FAKE",
     "DOC_WRAPPED", "DOC_EMPTY_OBJECT", "DOC_NO_SCORE", "DOC_ERROR_OBJECT",
     "DOC_ARRAY", "DOC_NUMBER"}

\* text that is no JSON document
PROSE == "Here is my analysis"

JsonValue(doc) ==
    CASE doc = "DOC_INVALID_URL"  -> InvalidUrlVerdict
      [] doc = "DOC_NON_NEWS"     -> NonNewsVerdict
      [] doc = "DOC_CREDIBLE"     -> CredibleVerdict
      [] doc = "DOC_FAKE"         -> FakeVerdict
      [] doc = "DOC_WRAPPED"      ->
            PyValue("dict", {"textResult"}, "", 0, <<>>, <<>>, <<>>, "", <<>>)
      [] doc = "DOC_EMPTY_OBJECT" ->
            PyValue("dict", {}, "", 0, <<>>, <<>>, <<>>, "", <<>>)
      [] doc = "DOC_NO_SCORE"     ->
            PyValue("dict", VerdictKeys \ {"score"}, "LABEL_0", 0, <<>>,
                    <<"Looks fine.">>, <<>>, "", <<>>)
      [] doc = "DOC_ERROR_OBJECT" -> ErrorValue("Fact check failed")
      [] doc = "DOC_ARRAY"        ->
            PyValue("list", {}, "", 0, <<>>, <<>>, <<>>, "", <<>>)
      [] doc = "DOC_NUMBER"       ->
            PyValue("number", {}, "", 5, <<>>, <<>>, <<>>, "", <<>>)

\* json.loads: surrounding whitespace is accepted, anything but exactly one
\* document raises JSONDecodeError
JsonLoads(text) ==
    LET core == Strip(text)
    IN IF Len(core) = 1 /\ core[1] \in JsonDocs
       THEN [ok |-> TRUE, value |-> JsonValue(core[1])]
       ELSE [ok |-> FALSE, value |-> NoValue]

\* json.dumps of a value json.loads produced
JsonDumps(value) ==
    <<CHOOSE doc \in JsonDocs : JsonValue(doc) = value>>

\* the fence removal of analyze_article
StripFences(final_text) ==
    IF StartsWith(final_text, <<FENCE, JSONTAG>>)
    THEN Strip(RemoveSuffix(RemovePrefix(Strip(final_text), <<FENCE, JSONTAG>>), <<FENCE>>))
    ELSE IF StartsWith(final_text, <<FENCE>>)
    THEN Strip(RemoveSuffix(RemovePrefix(Strip(final_text), <<FENCE>>), <<FENCE>>))
    ELSE final_text

(***************************************************************************)
(* URLs and extract_domain_from_url                                        *)
(***************************************************************************)
Schemes == {"http:", "https:", "HTTP:"}
PathDelims == {"/", "?", "#"}

RECURSIVE TakeHost(_)
TakeHost(s) ==
    IF s = <<>> \/ Head(s) \in PathDelims THEN <<>>
    ELSE <<Head(s)>> \o TakeHost(Tail(s))

\* urlparse(url).netloc
Netloc(url) ==
    LET rest == IF url # <<>> /\ Head(url) \in Schemes THEN Tail(url) ELSE url
    IN IF rest # <<>> /\ Head(rest) = "//" THEN TakeHost(Tail(rest)) ELSE <<>>

LowerToken(t) ==
    CASE t = "WWW."     -> "www."
      [] t = "NEWS.COM" -> "news.com"
      [] t = "Www."     -> "www."
      [] OTHER          -> t

Lower(s) == [i \in 1..Len(s) |-> LowerToken(s[i])]

\* None is the empty sequence
extract_domain_from_url(url) ==
    LET netloc == Netloc(url)
        domain == IF netloc # <<>> /\ StartsWith(netloc, <<"www.">>)
                  THEN Tail(netloc) ELSE netloc
    IN IF domain # <<>> THEN Lower(domain) ELSE <<>>

(***************************************************************************)
(* The relational store: pool, url_verdicts, analysis_results, users       *)
(***************************************************************************)
\* what can go wrong in one store operation
DbFaults == {"none", "init_fail", "getconn_fail", "query_fail"}

\* initialize_db_pool: creates the pool only when there is none
initialize_db_pool(pool, fault) ==
    IF pool = "None"
    THEN IF fault = "init_fail"
         THEN [pool |-> "None", raised |-> TRUE]
         ELSE [pool |-> "pool", raised |-> FALSE]
    ELSE [pool |-> pool, raised |-> FALSE]

\* get_db_connection: conn is TRUE when a connection was handed out
get_db_connection(pool, fault) ==
    LET init == initialize_db_pool(pool, fault)
    IN IF init.raised \/ init.pool = "None"
       THEN [pool |-> init.pool, conn |-> FALSE]
       ELSE [pool |-> init.pool, conn |-> fault # "getconn_fail"]

\* the curated url_verdicts table (read-only here)
UrlVerdicts ==
    { [domain |-> <<"news.com">>, verdict |-> VERDICT_REAL],
      [domain |-> <<"hoax.net">>, verdict |-> VERDICT_FAKE] }

\* variant: the connection is taken before the URL is looked at
check_database_for_url_eager(url, pool, fault) ==
    LET domain == extract_domain_from_url(url)
        got    == get_db_connection(pool, fault)
        rows   == {r \in UrlVerdicts : r.domain = domain}
    IN IF ~got.conn \/ fault = "query_fail"
       THEN [kind |-> "raise", value |-> "DatabaseError", pool |-> got.pool,
             queried |-> got.conn]
       ELSE IF domain = <<>>
       THEN [kind |-> "return", value |-> "invalid_url", pool |-> got.pool, queried |-> TRUE]
       ELSE [kind |-> "return",
             value |-> IF rows # {} THEN (CHOOSE r \in rows : TRUE).verdict
                       ELSE VERDICT_NOT_FOUND,
             pool |-> got.pool, queried |-> TRUE]

\* returns the verdict string, or raises DatabaseError
check_database_for_url(url, pool, fault) ==
    LET domain == extract_domain_from_url(url)
        got    == get_db_connection(pool, fault)
        rows   == {r \in UrlVerdicts : r.domain = domain}
    IN IF domain = <<>>
       THEN [kind |-> "return", value |-> "invalid_url", pool |-> pool, queried |-> FALSE]
       ELSE IF ~got.conn \/ fault = "query_fail"
       THEN [kind |-> "raise", value |-> "DatabaseError", pool |-> got.pool,
             queried |-> got.conn]
       ELSE [kind |-> "return",
             value |-> IF rows # {} THEN (CHOOSE r \in rows : TRUE).verdict
                       ELSE VERDICT_NOT_FOUND,
             pool |-> got.pool, queried |-> TRUE]

\* variant: a plain INSERT without the conflict clause on a table without key
ApplyUpsert_insert(table, url, result_json, now) ==
    Append(table, [url |-> url, result_json |-> result_json, timestamp |-> now])

\* variant: ON CONFLICT (url) DO NOTHING, the first write wins
ApplyUpsert_keep(table, url, result_json, now) ==
    IF \E i \in 1..Len(table) : table[i].url = url
    THEN table
    ELSE Append(table, [url |-> url, result_json |-> result_json, timestamp |-> now])

\* INSERT ... ON CONFLICT (url) DO UPDATE on a table kept as a sequence of rows
ApplyUpsert(table, url, result_json, now) ==
    LET row == [url |-> url, result_json |-> result_json, timestamp |-> now]
    IN IF \E i \in 1..Len(table) : table[i].url = url
       THEN [i \in 1..Len(table) |-> IF table[i].url = url THEN row ELSE table[i]]
       ELSE Append(table, row)

\* update_analysis_results: returns the new table, or raises DatabaseError
update_analysis_results(url, analysis_result, table, now, pool, fault) ==
    LET got == get_db_connection(pool, fault)
    IN IF ~got.conn \/ fault = "query_fail"
       THEN [kind |-> "raise", table |-> table, pool |-> got.pool]
       ELSE [kind |-> "return",
             table |-> ApplyUpsert(table, url, JsonDumps(analysis_result), now),
             pool |-> got.pool]

\* get_or_create_user on the users table (a set of rows)
get_or_create_user(google_id, table, pool, fault) ==
    LET got   == get_db_connection(pool, fault)
        found == {u \in table : u.google_id = google_id}
        fresh == [id |-> Cardinality(table) + 1, google_id |-> google_id,
                  tier |-> DEFAULT_USER_TIER]
    IN IF ~got.conn \/ fault = "query_fail"
       THEN [kind |-> "raise", table |-> table, pool |-> got.pool, user |-> fresh]
       ELSE IF found # {}
       THEN [kind |-> "return", table |-> table, pool |-> got.pool,
             user |-> CHOOSE u \in found : TRUE]
       ELSE [kind |-> "return", table |-> table \cup {fresh}, pool |-> got.pool,
             user |-> fresh]

(***************************************************************************)
(* Collaborators: search_google_news and fact_check_claims                 *)
(***************************************************************************)
\* a credential as read from the environment: unset, the placeholder of the
\* sample configuration, or a real key
ApiKeys == {"", "YOUR_API_KEY", "key"}

\* not (not KEY or KEY.startswith("YOUR_"))
KeyConfigured(key) == key # "" /\ key # "YOUR_API_KEY"

GOOGLE_SEARCH_RESULT_LIMIT == 5
FACT_CHECK_QUERY_SIZE_LIMIT == 500

Min(a, b) == IF a < b THEN a ELSE b

\* s[:n]
Take(s, n) == SubSeq(s, 1, Min(n, Len(s)))

\* Python's None as the value of a field
PyNone == "None"

\* a provider entry is [dict, id, fields, nulls]: dict says whether it is a
\* JSON object, fields are the keys it carries, nulls those whose value is null
ItemGet(item, key, default) ==
    IF key \notin item.fields THEN default
    ELSE IF key \in item.nulls THEN PyNone
    ELSE <<key, item.id>>

\* str(x)
Str(x) == IF x = PyNone THEN <<"None">> ELSE x

\* variant: item.get without default and without str()
SearchItem_raw(item) ==
    [title   |-> ItemGet(item, "title", PyNone),
     link    |-> ItemGet(item, "url", PyNone),
     snippet |-> ItemGet(item, "description", PyNone)]

SearchItem(item) ==
    [title   |-> Str(ItemGet(item, "title", <<"N/A">>)),
     link    |-> Str(ItemGet(item, "url", <<"#">>)),
     snippet |-> Str(ItemGet(item, "description", <<"N/A">>))]

\* "item and isinstance(item, dict)": an empty object is skipped as well
RECURSIVE SearchResults(_)
SearchResults(items) ==
    IF items = <<>> THEN <<>>
    ELSE (IF Head(items).dict /\ Head(items).fields # {}
          THEN <<SearchItem(Head(items))>> ELSE <<>>)
         \o SearchResults(Tail(items))

\* a query the model passes: text, or text with an unpaired surrogate, which
\* quote() cannot encode
Queries == {"election fraud", "unpaired surrogate"}

Quotable(query) == query # "unpaired surrogate"

\* variant: every entry of the answer is reshaped
search_google_news_unlimited(key_ok, query, resp) ==
    IF ~key_ok
    THEN [kind |-> "raise", exc |-> "ConfigurationError", value |-> <<>>, requests |-> 0]
    ELSE IF ~Quotable(query)
    THEN [kind |-> "raise", exc |-> "UnicodeEncodeError", value |-> <<>>, requests |-> 0]
    ELSE IF resp.kind = "ok"
    THEN [kind |-> "return", exc |-> "", value |-> SearchResults(resp.items),
          requests |-> 1]
    ELSE IF resp.kind = "results_not_list"
    THEN [kind |-> "return", exc |-> "", value |-> <<>>, requests |-> 1]
    ELSE [kind |-> "raise", exc |-> "ApiError", value |-> <<>>, requests |-> 1]

\* variant: a failed request is sent a second time
search_google_news_retry(key_ok, query, resp) ==
    IF ~key_ok
    THEN [kind |-> "raise", exc |-> "ConfigurationError", value |-> <<>>, requests |-> 0]
    ELSE IF ~Quotable(query)
    THEN [kind |-> "raise", exc |-> "UnicodeEncodeError", value |-> <<>>, requests |-> 0]
    ELSE IF resp.kind = "ok"
    THEN [kind |-> "return", exc |-> "",
          value |-> SearchResults(Take(resp.items, GOOGLE_SEARCH_RESULT_LIMIT)),
          requests |-> 1]
    ELSE IF resp.kind = "results_not_list"
    THEN [kind |-> "return", exc |-> "", value |-> <<>>, requests |-> 1]
    ELSE [kind |-> "raise", exc |-> "ApiError", value |-> <<>>, requests |-> 2]

\* variant: the key is looked at after the request was made
search_google_news_late(key_ok, query, resp) ==
    IF ~Quotable(query)
    THEN [kind |-> "raise", exc |-> "UnicodeEncodeError", value |-> <<>>, requests |-> 0]
    ELSE [kind |-> "raise",
          exc |-> IF key_ok THEN "ApiError" ELSE "ConfigurationError",
          value |-> <<>>, requests |-> 1]

\* resp is the provider's answer to the one request: [kind, items] with kind
\* in timeout, request_error (network or HTTP status), bad_json, not_object,
\* results_not_list, ok
search_google_news(key_ok, query, resp) ==
    IF ~key_ok
    THEN [kind |-> "raise", exc |-> "ConfigurationError", value |-> <<>>, requests |-> 0]
    ELSE IF ~Quotable(query)
    THEN [kind |-> "raise", exc |-> "UnicodeEncodeError", value |-> <<>>, requests |-> 0]
    ELSE IF resp.kind = "ok"
    THEN [kind |-> "return", exc |-> "",
          value |-> SearchResults(Take(resp.items, GOOGLE_SEARCH_RESULT_LIMIT)),
          requests |-> 1]
    ELSE IF resp.kind = "results_not_list"
    THEN [kind |-> "return", exc |-> "", value |-> <<>>, requests |-> 1]
    ELSE [kind |-> "raise", exc |-> "ApiError", value |-> <<>>, requests |-> 1]

\* variant: the claim is sent as it is
Truncate_none(claim, n) == claim

\* a claim is [id, len]; claim_text[:n] keeps the id and cuts the length
Truncate(claim, n) == [id |-> claim.id, len |-> Min(claim.len, n)]

FcFailures == {"timeout", "request_error", "decode_error", "unexpected"}
FcOutcomes == {"review", "no_claims", "no_reviews"} \cup FcFailures

\* the text appended to tool_errors for a failed request
FcErrorMessage(outcome, truncated_claim) ==
    CASE outcome = "timeout"       -> <<"Timeout calling Fact Check API for claim", truncated_claim>>
      [] outcome = "request_error" -> <<"Error calling Google Fact Check API", truncated_claim>>
      [] outcome = "decode_error"  -> <<"Error decoding Google Fact Check API response", truncated_claim>>
      [] OTHER                     -> <<"Unexpected error during fact check for claim", truncated_claim>>

\* data.get("claims", []) of the provider's answer to the request for claim
FcData(outcome, claim) ==
    CASE outcome = "review" ->
           << [text |-> claim.id, claimReview |-> <<"rating 1.1", "rating 1.2">>],
              [text |-> "related claim", claimReview |-> <<"rating 2.1">>] >>
      [] outcome = "no_reviews" -> << [text |-> claim.id, claimReview |-> <<>>] >>
      [] OTHER -> <<>>

\* variant: one record for every review of every claim of the answer
FcRecords_every(found_claims_data) ==
    LET RECURSIVE All(_, _)
        All(c, k) ==
            IF c > Len(found_claims_data) THEN <<>>
            ELSE IF k > Len(found_claims_data[c].claimReview) THEN All(c + 1, 1)
            ELSE << [source |-> "Publisher", claim |-> found_claims_data[c].text,
                     review_rating |-> found_claims_data[c].claimReview[k]] >>
                 \o All(c, k + 1)
    IN All(1, 1)

\* what one answer adds to all_results: nothing, or the record of the first
\* review of the first claim
FcRecords(found_claims_data) ==
    IF found_claims_data # <<>> /\ found_claims_data[1].claimReview # <<>>
    THEN << [source |-> "Publisher", claim |-> found_claims_data[1].text,
             review_rating |-> found_claims_data[1].claimReview[1]] >>
    ELSE <<>>

\* the for loop of fact_check_claims from position i on; outcomes[i] is what
\* the provider does with the i-th request
RECURSIVE FcLoop(_, _, _, _)
FcLoop(claims_to_check, outcomes, i, acc) ==
    IF i > Len(claims_to_check) THEN acc
    ELSE LET truncated_claim == Truncate(claims_to_check[i], FACT_CHECK_QUERY_SIZE_LIMIT)
             next == [requests    |-> Append(acc.requests, truncated_claim),
                      all_results |-> IF outcomes[i] \in FcFailures
                                      THEN acc.all_results
                                      ELSE acc.all_results
                                           \o FcRecords(FcData(outcomes[i], claims_to_check[i])),
                      tool_errors |-> IF outcomes[i] \in FcFailures
                                      THEN Append(acc.tool_errors,
                                                  FcErrorMessage(outcomes[i], truncated_claim))
                                      ELSE acc.tool_errors]
         IN FcLoop(claims_to_check, outcomes, i + 1, next)

\* variant: the records found so far are returned although a request failed
fact_check_claims_partial(key_ok, claims, outcomes) ==
    LET claims_to_check == Take(claims, FACT_CHECK_CLAIM_LIMIT)
        run == FcLoop(claims_to_check, outcomes, 1,
                      [requests |-> <<>>, all_results |-> <<>>, tool_errors |-> <<>>])
    IN IF ~key_ok
       THEN [kind |-> "raise", exc |-> "ConfigurationError", value |-> <<>>,
             message |-> <<>>, requests |-> <<>>]
       ELSE IF claims = <<>>
       THEN [kind |-> "return", exc |-> "", value |-> <<>>, message |-> <<>>,
             requests |-> <<>>]
       ELSE [kind |-> "return", exc |-> "", value |-> run.all_results,
             message |-> run.tool_errors, requests |-> run.requests]

\* variant: the loop ends at the first failed request
fact_check_claims_abort(key_ok, claims, outcomes) ==
    LET claims_to_check == Take(claims, FACT_CHECK_CLAIM_LIMIT)
        failed == {i \in 1..Len(claims_to_check) : outcomes[i] \in FcFailures}
        last == IF failed = {} THEN Len(claims_to_check)
                ELSE CHOOSE i \in failed : \A j \in failed : i <= j
        run == FcLoop(SubSeq(claims_to_check, 1, last), outcomes, 1,
                      [requests |-> <<>>, all_results |-> <<>>, tool_errors |-> <<>>])
    IN IF ~key_ok
       THEN [kind |-> "raise", exc |-> "ConfigurationError", value |-> <<>>,
             message |-> <<>>, requests |-> <<>>]
       ELSE IF claims = <<>>
       THEN [kind |-> "return", exc |-> "", value |-> <<>>, message |-> <<>>,
             requests |-> <<>>]
       ELSE IF run.tool_errors # <<>>
       THEN [kind |-> "raise", exc |-> "ApiError", value |-> <<>>,
             message |-> run.tool_errors, requests |-> run.requests]
       ELSE [kind |-> "return", exc |-> "", value |-> run.all_results,
             message |-> <<>>, requests |-> run.requests]

fact_check_claims(key_ok, claims, outcomes) ==
    LET claims_to_check == Take(claims, FACT_CHECK_CLAIM_LIMIT)
        run == FcLoop(claims_to_check, outcomes, 1,
                      [requests |-> <<>>, all_results |-> <<>>, tool_errors |-> <<>>])
    IN IF ~key_ok
       THEN [kind |-> "raise", exc |-> "ConfigurationError", value |-> <<>>,
             message |-> <<>>, requests |-> <<>>]
       ELSE IF claims = <<>>
       THEN [kind |-> "return", exc |-> "", value |-> <<>>, message |-> <<>>,
             requests |-> <<>>]
       ELSE IF run.tool_errors # <<>>
       THEN [kind |-> "raise", exc |-> "ApiError", value |-> <<>>,
             message |-> run.tool_errors, requests |-> run.requests]
       ELSE [kind |-> "return", exc |-> "", value |-> run.all_results,
             message |-> <<>>, requests |-> run.requests]

(***************************************************************************)
(* Request inputs and model replies                                        *)
(***************************************************************************)
U_NEWS == <<"https:", "//", "www.", "news.com", "/", "story">>
U_HOAX == <<"http:", "//", "hoax.net", "/", "story">>
U_GITHUB == <<"https:", "//", "github.com", "/", "repo">>
U_NOSCHEME == <<"github.com", "/", "repo">>
U_PLAIN == <<"not a url">>
U_EMPTY == <<>>
U_UPPER == <<"HTTP:", "//", "WWW.", "NEWS.COM", "/", "story">>
U_MIXED == <<"https:", "//", "Www.", "news.com">>
U_BARE == <<"http:", "//", "news.com", "?", "id">>
U_WWWONLY == <<"http:", "//", "www.">>

RequestUrls == {U_NEWS, U_GITHUB, U_NOSCHEME, U_EMPTY}
ConcUrls == {U_NEWS, U_GITHUB}
AllUrls ==
    {U_NEWS, U_HOAX, U_GITHUB, U_NOSCHEME, U_PLAIN, U_EMPTY, U_UPPER, U_MIXED, U_BARE,
     U_WWWONLY}

\* domains the instruction text lists as non-news
NonNewsDomains == {<<"github.com">>, <<"npmjs.com">>, <<"readthedocs.io">>}

AuthKinds == {"no_header", "empty_token", "rejected", "valid"}
\* the request body: no JSON content type; JSON content type with a body that
\* does not parse; a JSON document that is no object; a JSON object
BodyKinds == {"not_json", "malformed_json", "json_array", "object"}
Texts == {"", "article"}

\* the ways a model can wrap a document in code fences
FencedForms(doc) ==
    { lead \o open \o gap \o <<doc>> \o gap \o <<FENCE>> \o trail :
        lead \in {<<>>, <<WS>>}, open \in {<<FENCE, JSONTAG>>, <<FENCE>>},
        gap \in {<<>>, <<WS>>}, trail \in {<<>>, <<WS>>} }

TextReply(text) == [kind |-> "text", text |-> text]

NoReply == [kind |-> "none", text |-> <<>>]

FinalReplies ==
    { TextReply(<<doc>>) : doc \in JsonDocs }
    \cup { TextReply(t) : t \in FencedForms("DOC_FAKE") }
    \cup { TextReply(<<PROSE>>), TextReply(<<PROSE, "DOC_FAKE">>),
           TextReply(<<WS, "DOC_CREDIBLE", WS>>),
           TextReply(<<FENCE, JSONTAG, WS, PROSE, WS, FENCE>>),
           [kind |-> "no_text_attr", text |-> <<>>],
           [kind |-> "text_none", text |-> <<>>] }

ConcReplies ==
    { TextReply(<<"DOC_CREDIBLE">>), TextReply(<<"DOC_FAKE">>), TextReply(<<PROSE>>) }

(***************************************************************************)
(* analyze_article and handle_analyze                                      *)
(***************************************************************************)
MSG_TOOL == "Analysis failed due to tool error"
MSG_JSON == "Model did not return valid JSON in the final response."
MSG_NOTEXT == "Model did not provide a final text analysis after function calls."
MSG_UNEXPECTED == "An unexpected server error occurred during analysis interaction."

\* variant: the decode error is reported without the raw text
ParseReply_noraw(r) ==
    LET final_text == StripFences(r.text)
        loaded == JsonLoads(final_text)
    IN CASE r.kind = "no_text_attr" -> [store |-> FALSE, value |-> ErrorValue(MSG_NOTEXT)]
         [] r.kind = "text_none"    -> [store |-> FALSE, value |-> ErrorValue(MSG_UNEXPECTED)]
         [] OTHER ->
              IF loaded.ok THEN [store |-> TRUE, value |-> loaded.value]
              ELSE [store |-> FALSE, value |-> ErrorValue(MSG_JSON)]

\* variant: text that does not decode is taken as an empty analysis and stored
ParseReply_lenient(r) ==
    LET final_text == StripFences(r.text)
        loaded == JsonLoads(final_text)
    IN CASE r.kind = "no_text_attr" -> [store |-> FALSE, value |-> ErrorValue(MSG_NOTEXT)]
         [] r.kind = "text_none"    -> [store |-> FALSE, value |-> ErrorValue(MSG_UNEXPECTED)]
         [] OTHER ->
              IF loaded.ok THEN [store |-> TRUE, value |-> loaded.value]
              ELSE [store |-> TRUE, value |-> JsonValue("DOC_EMPTY_OBJECT")]

\* what analyze_article does with the model's final response: either it
\* returns at once (store = FALSE) or it has an analysis_result to store
ParseReply(r) ==
    LET final_text == StripFences(r.text)
        loaded == JsonLoads(final_text)
    IN CASE r.kind = "no_text_attr" -> [store |-> FALSE, value |-> ErrorValue(MSG_NOTEXT)]
         [] r.kind = "text_none"    -> [store |-> FALSE, value |-> ErrorValue(MSG_UNEXPECTED)]
         [] OTHER ->
              IF loaded.ok THEN [store |-> TRUE, value |-> loaded.value]
              ELSE [store |-> FALSE, value |-> ErrorValueRaw(MSG_JSON, final_text)]

\* variant: the DatabaseError of the store is not caught next to the call and
\* reaches the handler for tool errors
AfterStore_propagates(analysis_result, outcome) ==
    IF outcome = "raise" THEN ErrorValue(MSG_TOOL) ELSE analysis_result

\* the value analyze_article returns after update_analysis_results ended
\* with outcome "return" or "raise"
AfterStore(analysis_result, outcome) == analysis_result

\* "error" in result, for the values json.loads can give
HasErrorKey(value) ==
    CASE value.type = "dict" -> "error" \in value.keys
      [] value.type = "list" -> FALSE
      [] OTHER               -> FALSE

\* the response of the decorated handler for a value analyze_article returned
handle_analyze_response(value) ==
    IF value.type \notin {"dict", "list"}
    THEN [status |-> 500, body |-> ErrorValue("Unexpected server error during authentication")]
    ELSE IF ~HasErrorKey(value) THEN [status |-> 200, body |-> value]
    ELSE IF value.error = MSG_TOOL THEN [status |-> 502, body |-> value]
    ELSE [status |-> 500, body |-> value]

(***************************************************************************)
(* State                                                                   *)
(***************************************************************************)
VARIABLES
    pc,        \* per worker: idle, agent, store, done
    req,       \* per worker: the request being served
    agent,     \* per worker: what the model's tool calls did in this analysis
    reply,     \* per worker: the model's final response
    parsed,    \* per worker: analysis_result, the value json.loads produced
    stored,    \* per worker: how update_analysis_results ended, see NotStored
    result,    \* per worker: the value analyze_article returned
    response,  \* per worker: status and body sent by the gateway
    cache,     \* the analysis_results table, a sequence of rows
    users,     \* the users table
    db_pool,   \* "None" or "pool"
    client,    \* whether the module-level model client exists
    clock,     \* NOW() of the store
    started,   \* number of requests received
    call,      \* the last direct call of a tool function
    media,     \* the last request on a media endpoint and its answer
    th,        \* per thread: the store operation it is in, see IdleThread
    pool_gen,  \* number of pools constructed so far; the current pool's identity
    used,      \* per pool: connections checked out of it
    lost,      \* connections that were neither put back nor closed
    ops        \* store operations begun

\* the variables the article analysis does not touch
side == <<media, th, pool_gen, used, lost, ops>>

vars == <<pc, req, agent, reply, parsed, stored, result, response, cache, users,
          db_pool, client, clock, started, call, side>>

NoRequest == [auth |-> "none", user |-> "none", body |-> "none", url |-> <<>>, text |-> ""]
NoAgent == [lookup |-> "none", searched |-> FALSE, checked |-> FALSE,
            early |-> FALSE, failed |-> FALSE]
NoResponse == [status |-> 0, body |-> NoValue]
NoCall == [tool |-> "none"]

\* outcome is none, ok or failed; at is the store's time of the write; racing
\* says that another worker was analysing the same URL when the write ran
NotStored == [outcome |-> "none", at |-> 0, racing |-> FALSE]

NoMedia == [endpoint |-> "none"]

\* a thread outside any store operation; conn is the pool the connection it
\* holds came from (-1: none), out how its last operation ended
IdleThread ==
    [pc |-> "idle", op |-> "none", gid |-> "", conn |-> -1,
     out |-> [kind |-> "none", id |-> 0]]

\* state after the module was imported: the client exists only if the first
\* check_configuration (which also creates the pool) went through
Init ==
    /\ pc = [p \in Procs |-> "idle"]
    /\ req = [p \in Procs |-> NoRequest]
    /\ agent = [p \in Procs |-> NoAgent]
    /\ reply = [p \in Procs |-> NoReply]
    /\ parsed = [p \in Procs |-> NoValue]
    /\ stored = [p \in Procs |-> NotStored]
    /\ result = [p \in Procs |-> NoValue]
    /\ response = [p \in Procs |-> NoResponse]
    /\ cache = <<>>
    /\ users = {}
    /\ \E start \in {<<TRUE, "pool">>, <<FALSE, "pool">>, <<FALSE, "None">>} :
          /\ client = start[1]
          /\ db_pool = start[2]
    /\ clock = 0
    /\ started = 0
    /\ call = NoCall
    /\ media = NoMedia
    /\ th = [t \in 1..MaxThreads |-> IdleThread]
    /\ pool_gen = 0
    /\ used = [g \in 0..MaxPools |-> 0]
    /\ lost = 0
    /\ ops = 0

\* analyze_article returns value and handle_analyze answers
Finish(p, value) ==
    /\ result' = [result EXCEPT ![p] = value]
    /\ response' = [response EXCEPT ![p] = handle_analyze_response(value)]
    /\ pc' = [pc EXCEPT ![p] = "done"]

\* the gateway answers without calling analyze_article
Reject(p, status, msg) ==
    /\ response' = [response EXCEPT ![p] = [status |-> status, body |-> ErrorValue(msg)]]
    /\ result' = [result EXCEPT ![p] = NoValue]
    /\ pc' = [pc EXCEPT ![p] = "done"]

\* variant: the handler checks the payload before the decorator checks the
\* bearer token
Receive_validate_first(p, in) ==
    /\ pc[p] \in {"idle", "done"}
    /\ started < in.limit
    /\ started' = started + 1
    /\ \E auth \in in.auths, body \in in.bodies, url \in in.urls, text \in in.texts,
          fault \in DbFaults :
          LET user == get_or_create_user("g1", users, db_pool, fault)
              malformed == body # "object" \/ url = <<>> \/ text = ""
          IN /\ req' = [req EXCEPT ![p] =
                    [auth |-> auth,
                     user |-> IF auth = "valid" /\ ~malformed THEN user.kind ELSE "none",
                     body |-> body, url |-> url, text |-> text]]
             /\ IF body = "not_json"
                THEN /\ Reject(p, 400, "Request must be JSON")
                     /\ UNCHANGED <<users, db_pool>>
                ELSE IF body \in {"malformed_json", "json_array"}
                THEN /\ Reject(p, 500, "Unexpected server error during authentication")
                     /\ UNCHANGED <<users, db_pool>>
                ELSE IF url = <<>> \/ text = ""
                THEN /\ Reject(p, 400, "Missing 'url' or 'article_text' in JSON payload")
                     /\ UNCHANGED <<users, db_pool>>
                ELSE IF auth # "valid"
                THEN /\ Reject(p, 401, "Authentication failed")
                     /\ UNCHANGED <<users, db_pool>>
                ELSE /\ users' = user.table
                     /\ db_pool' = user.pool
                     /\ IF user.kind = "raise"
                        THEN Reject(p, 500, "Server error during user processing")
                        ELSE /\ pc' = [pc EXCEPT ![p] = "agent"]
                             /\ result' = [result EXCEPT ![p] = NoValue]
                             /\ response' = [response EXCEPT ![p] = NoResponse]
    /\ agent' = [agent EXCEPT ![p] = NoAgent]
    /\ reply' = [reply EXCEPT ![p] = NoReply]
    /\ parsed' = [parsed EXCEPT ![p] = NoValue]
    /\ stored' = [stored EXCEPT ![p] = NotStored]
    /\ UNCHANGED <<cache, client, clock, call, side>>

\* require_auth and handle_analyze up to the call of analyze_article; what
\* get_json() or data.get() raise is caught by the decorator's except Exception
Receive(p, in) ==
    /\ pc[p] \in {"idle", "done"}
    /\ started < in.limit
    /\ started' = started + 1
    /\ \E auth \in in.auths, body \in in.bodies, url \in in.urls, text \in in.texts,
          fault \in DbFaults :
          LET user == get_or_create_user("g1", users, db_pool, fault)
          IN /\ req' = [req EXCEPT ![p] =
                    [auth |-> auth,
                     user |-> IF auth = "valid" THEN user.kind ELSE "none",
                     body |-> body, url |-> url, text |-> text]]
             /\ IF auth # "valid"
                THEN /\ Reject(p, 401, "Authentication failed")
                     /\ UNCHANGED <<users, db_pool>>
                ELSE /\ users' = user.table
                     /\ db_pool' = user.pool
                     /\ IF user.kind = "raise"
                        THEN Reject(p, 500, "Server error during user processing")
                        ELSE IF body = "not_json"
                        THEN Reject(p, 400, "Request must be JSON")
                        ELSE IF body \in {"malformed_json", "json_array"}
                        THEN Reject(p, 500, "Unexpected server error during authentication")
                        ELSE IF url = <<>> \/ text = ""
                        THEN Reject(p, 400, "Missing 'url' or 'article_text' in JSON payload")
                        ELSE /\ pc' = [pc EXCEPT ![p] = "agent"]
                             /\ result' = [result EXCEPT ![p] = NoValue]
                             /\ response' = [response EXCEPT ![p] = NoResponse]
    /\ agent' = [agent EXCEPT ![p] = NoAgent]
    /\ reply' = [reply EXCEPT ![p] = NoReply]
    /\ parsed' = [parsed EXCEPT ![p] = NoValue]
    /\ stored' = [stored EXCEPT ![p] = NotStored]
    /\ UNCHANGED <<cache, client, clock, call, side>>

\* a tool raised: the exception either leaves chat.send_message and is caught
\* by analyze_article, or the model runtime hands it to the model as the
\* tool's answer and the loop goes on
ToolRaised(p, exc, propagate) ==
    IF propagate
    THEN Finish(p, IF exc \in {"ApiError", "DatabaseError", "ConfigurationError"}
                   THEN ErrorValue(MSG_TOOL) ELSE ErrorValue(MSG_UNEXPECTED))
    ELSE UNCHANGED <<pc, result, response>>

\* the model calls check_database_for_url(url)
AgentLookup(p) ==
    /\ pc[p] = "agent"
    /\ client
    /\ \E fault \in DbFaults, propagate \in BOOLEAN :
          LET r == check_database_for_url(req[p].url, db_pool, fault)
          IN /\ agent' = [agent EXCEPT ![p].lookup = r.value]
             /\ db_pool' = r.pool
             /\ IF r.kind = "raise"
                THEN ToolRaised(p, r.value, propagate)
                ELSE UNCHANGED <<pc, result, response>>
    /\ UNCHANGED <<req, reply, parsed, stored, cache, users, client, clock, started, call, side>>

ItemKinds == {"full", "partial", "empty", "no_object"}

\* the entry of the given kind at position id of organic_results
MakeItem(kind, id) ==
    CASE kind = "full" ->
           [dict |-> TRUE, id |-> id, fields |-> {"title", "url", "description"},
            nulls |-> {}]
      [] kind = "partial" ->
           [dict |-> TRUE, id |-> id, fields |-> {"description"},
            nulls |-> {"description"}]
      [] kind = "empty" -> [dict |-> TRUE, id |-> id, fields |-> {}, nulls |-> {}]
      [] OTHER -> [dict |-> FALSE, id |-> id, fields |-> {}, nulls |-> {}]

FailedResponses ==
    { [kind |-> k, items |-> <<>>] :
        k \in {"timeout", "request_error", "bad_json", "not_object"} }

SearchResponses ==
    FailedResponses
    \cup { [kind |-> "results_not_list", items |-> <<>>],
           [kind |-> "ok", items |-> <<MakeItem("full", 1)>>] }

\* the model calls search_google_news(query)
AgentSearch(p) ==
    /\ pc[p] = "agent"
    /\ client
    /\ \E query \in Queries, resp \in SearchResponses, propagate \in BOOLEAN :
          LET r == search_google_news(TRUE, query, resp)
          IN /\ agent' = [agent EXCEPT ![p].searched = TRUE,
                                       ![p].early = @ \/ agent[p].lookup = "none",
                                       ![p].failed = @ \/ r.kind = "raise"]
             /\ IF r.kind = "raise"
                THEN ToolRaised(p, r.exc, propagate)
                ELSE UNCHANGED <<pc, result, response>>
    /\ UNCHANGED <<req, reply, parsed, stored, cache, users, db_pool, client, clock,
                   started, call, side>>

Claim(id, len) == [id |-> id, len |-> len]

ClaimLists ==
    { <<>>, <<Claim("a", 40)>>, <<Claim("a", 40), Claim("b", 501)>>,
      <<Claim("a", 40), Claim("b", 501), Claim("c", 500)>>,
      <<Claim("a", 40), Claim("b", 501), Claim("c", 500), Claim("d", 7)>> }

AgentClaimLists ==
    { <<>>, <<Claim("a", 40)>>,
      <<Claim("a", 40), Claim("b", 501), Claim("c", 500), Claim("d", 7)>> }

AgentFcOutcomes == {"review", "timeout"}

\* the model calls fact_check_claims(claims)
AgentFactCheck(p) ==
    /\ pc[p] = "agent"
    /\ client
    /\ \E claims \in AgentClaimLists, propagate \in BOOLEAN :
       \E outcomes \in [1..FACT_CHECK_CLAIM_LIMIT -> AgentFcOutcomes] :
          LET r == fact_check_claims(TRUE, claims, outcomes)
          IN /\ agent' = [agent EXCEPT ![p].checked = TRUE,
                                       ![p].early = @ \/ agent[p].lookup = "none",
                                       ![p].failed = @ \/ r.kind = "raise"]
             /\ IF r.kind = "raise"
                THEN ToolRaised(p, r.exc, propagate)
                ELSE UNCHANGED <<pc, result, response>>
    /\ UNCHANGED <<req, reply, parsed, stored, cache, users, db_pool, client, clock,
                   started, call, side>>

\* chat.send_message returns the model's final response
ModelReplies(p, in) ==
    /\ pc[p] = "agent"
    /\ client
    /\ \E r \in in.replies :
          LET out == ParseReply(r)
          IN /\ reply' = [reply EXCEPT ![p] = r]
             /\ IF out.store
                THEN /\ parsed' = [parsed EXCEPT ![p] = out.value]
                     /\ pc' = [pc EXCEPT ![p] = "store"]
                     /\ UNCHANGED <<result, response>>
                ELSE /\ Finish(p, out.value)
                     /\ UNCHANGED parsed
    /\ UNCHANGED <<req, agent, stored, cache, users, db_pool, client, clock, started, call, side>>

\* no client, or the model runtime raised something that is no tool error
ModelFails(p) ==
    /\ pc[p] = "agent"
    /\ Finish(p, ErrorValue(MSG_UNEXPECTED))
    /\ UNCHANGED <<req, agent, reply, parsed, stored, cache, users, db_pool, client,
                   clock, started, call, side>>

\* update_analysis_results(url, analysis_result), then the return
Store(p) ==
    /\ pc[p] = "store"
    /\ \E fault \in DbFaults :
          LET r == update_analysis_results(req[p].url, parsed[p], cache, clock + 1,
                                           db_pool, fault)
          IN /\ cache' = r.table
             /\ db_pool' = r.pool
             /\ clock' = IF r.kind = "return" THEN clock + 1 ELSE clock
             /\ stored' = [stored EXCEPT ![p] =
                    [outcome |-> IF r.kind = "return" THEN "ok" ELSE "failed",
                     at |-> IF r.kind = "return" THEN clock + 1 ELSE 0,
                     racing |-> \E q \in Procs \ {p} :
                                    /\ pc[q] \in {"agent", "store"}
                                    /\ req[q].url = req[p].url]]
             /\ Finish(p, AfterStore(parsed[p], r.kind))
    /\ UNCHANGED <<req, agent, reply, parsed, users, client, started, call, side>>

\* one request, every input
AllInputs ==
    [auths |-> AuthKinds, bodies |-> BodyKinds, urls |-> RequestUrls, texts |-> Texts,
     replies |-> FinalReplies, limit |-> 1]

Next ==
    \/ Receive("r1", AllInputs)
    \/ AgentLookup("r1")
    \/ AgentSearch("r1")
    \/ AgentFactCheck("r1")
    \/ ModelReplies("r1", AllInputs)
    \/ ModelFails("r1")
    \/ Store("r1")

Spec == Init /\ [][Next]_vars

\* two workers serving authenticated requests at the same time; the
\* collaborator calls touch no shared state and are left out
ConcInputs ==
    [auths |-> {"valid"}, bodies |-> {"object"}, urls |-> ConcUrls, texts |-> {"article"},
     replies |-> ConcReplies, limit |-> MaxRequests]

NextConc ==
    \E p \in Procs :
        \/ Receive(p, ConcInputs)
        \/ AgentLookup(p)
        \/ ModelReplies(p, ConcInputs)
        \/ ModelFails(p)
        \/ Store(p)

SpecConc == Init /\ [][NextConc]_vars

(***************************************************************************)
(* The media endpoints (src/extension/backend/check_media.py)              *)
(***************************************************************************)
PAID_TIER == "paid"

\* tiers a row of the users table can hold
Tiers == {DEFAULT_USER_TIER, PAID_TIER, "trial"}

GoogleIds == {"g1", "g2"}

\* request.get_json(): nothing or an empty document, a non-empty JSON
\* document that is no object, or an object; gid and media_url are "" when
\* the object lacks them
MediaBodies ==
    { [kind |-> "none", gid |-> "", media_url |-> ""],
      [kind |-> "array", gid |-> "", media_url |-> ""] }
    \cup { [kind |-> "object", gid |-> g, media_url |-> m] :
             g \in GoogleIds \cup {""}, m \in {"", "https://cdn/clip"} }

\* how analyze_video_logic / analyze_audio_logic end: a result whose status
\* is not error, a result with status error, or an exception
MediaLogicOutcomes == {"ok", "error", "raise"}

\* require_auth_and_paid_tier around handle_analyze_video / handle_analyze_audio:
\* the answer's status, the users table and pool afterwards, whether the user
\* was looked up, the tier found, and whether the analysis logic ran
handle_media(body, table, pool, fault, outcome) ==
    LET user == get_or_create_user(body.gid, table, pool, fault)
        base == [status |-> 0, table |-> table, pool |-> pool, looked_up |-> FALSE,
                 tier |-> "none", ran |-> FALSE]
    IN IF body.kind = "none" THEN [base EXCEPT !.status = 400]
       ELSE IF body.kind = "array" THEN [base EXCEPT !.status = 500]
       ELSE IF body.gid = "" THEN [base EXCEPT !.status = 400]
       ELSE IF user.kind = "raise"
       THEN [base EXCEPT !.status = 500, !.pool = user.pool, !.looked_up = TRUE]
       ELSE LET in == [base EXCEPT !.table = user.table, !.pool = user.pool,
                                   !.looked_up = TRUE, !.tier = user.user.tier]
            IN IF user.user.tier # PAID_TIER THEN [in EXCEPT !.status = 403]
               ELSE IF body.media_url = "" THEN [in EXCEPT !.status = 400]
               ELSE [in EXCEPT !.status = IF outcome = "ok" THEN 200 ELSE 500,
                               !.ran = TRUE]

\* POST /analyze_video or /analyze_audio
MediaRequest ==
    \E endpoint \in {"analyze_video", "analyze_audio"}, body \in MediaBodies,
       fault \in DbFaults, outcome \in MediaLogicOutcomes :
        LET r == handle_media(body, users, db_pool, fault, outcome)
        IN /\ media' = [endpoint |-> endpoint, body |-> body, ret |-> r]
           /\ users' = r.table
           /\ db_pool' = r.pool
           /\ UNCHANGED <<pc, req, agent, reply, parsed, stored, result, response, cache,
                          client, clock, started, call, th, pool_gen, used, lost, ops>>

\* the tier of a stored user is changed outside this service
SetTier ==
    \E u \in users, tier \in Tiers :
        /\ tier # u.tier
        /\ users' = (users \ {u}) \cup {[u EXCEPT !.tier = tier]}
        /\ UNCHANGED <<pc, req, agent, reply, parsed, stored, result, response, cache,
                       db_pool, client, clock, started, call, media, th, pool_gen, used,
                       lost, ops>>

NextMedia ==
    \/ MediaRequest
    \/ SetTier

SpecMedia == Init /\ [][NextMedia]_vars

(***************************************************************************)
(* The store operations step by step, run by several threads               *)
(***************************************************************************)
DB_POOL_MAX_CONN == 5

StoreOps == {"check_database_for_url", "update_analysis_results", "get_or_create_user"}

\* what the article analysis and the gateways hold; no store step changes it
main == <<pc, req, agent, reply, parsed, stored, result, response, client, started, call,
          media>>

Raised == [kind |-> "raise", id |-> 0]

Returned(id) == [kind |-> "return", id |-> id]

\* the operation of thread t ends here without a connection to release
EndOp(t, out) ==
    th' = [th EXCEPT ![t].pc = "idle", ![t].conn = -1, ![t].out = out]

\* the operation has its outcome; the finally clause is still to run
ToRelease(t, out) ==
    th' = [th EXCEPT ![t].pc = "release", ![t].out = out]

\* a store function is called: get_db_connection looks at db_pool and
\* initialize_db_pool looks at it again
BeginOp(t, kinds, limit) ==
    /\ th[t].pc = "idle"
    /\ ops < limit
    /\ ops' = ops + 1
    /\ \E op \in kinds :
          th' = [th EXCEPT ![t] =
                    [pc |-> IF db_pool = "None" THEN "construct" ELSE "getconn",
                     op |-> op, gid |-> "g1", conn |-> -1,
                     out |-> [kind |-> "none", id |-> 0]]]
    /\ UNCHANGED <<main, cache, users, db_pool, clock, pool_gen, used, lost>>

\* initialize_db_pool: SimpleConnectionPool(...) returned or raised, and
\* db_pool is assigned
ConstructPool(t) ==
    /\ th[t].pc = "construct"
    /\ \E ok \in BOOLEAN :
          IF ok /\ pool_gen < MaxPools
          THEN /\ db_pool' = "pool"
               /\ pool_gen' = pool_gen + 1
               /\ th' = [th EXCEPT ![t].pc = "getconn"]
          ELSE /\ db_pool' = "None"
               /\ pool_gen' = pool_gen
               /\ EndOp(t, Raised)
    /\ UNCHANGED <<main, cache, users, clock, used, lost, ops>>

\* get_db_connection after the pool test: db_pool.getconn() finds the pool
\* exhausted or not; the pool is a SimpleConnectionPool, which compares the
\* number of used connections with maxconn for equality and takes no lock
\* between this test and the registration of the new connection
GetConnAdmit(t, faults) ==
    /\ th[t].pc = "getconn"
    /\ \E fault \in faults :
          IF db_pool = "None" \/ fault # "none" \/ used[pool_gen] = DB_POOL_MAX_CONN
          THEN EndOp(t, Raised)
          ELSE th' = [th EXCEPT ![t].pc = "connect", ![t].conn = pool_gen]
    /\ UNCHANGED <<main, cache, users, db_pool, clock, pool_gen, used, lost, ops>>

\* db_pool.getconn(): the new connection is open and registered as used
GetConnConnect(t) ==
    /\ th[t].pc = "connect"
    /\ used' = [used EXCEPT ![th[t].conn] = @ + 1]
    /\ th' = [th EXCEPT ![t].pc = IF th[t].op = "get_or_create_user"
                                  THEN "select" ELSE "query"]
    /\ UNCHANGED <<main, cache, users, db_pool, clock, pool_gen, lost, ops>>

\* the statement of check_database_for_url or update_analysis_results
RunQuery(t, faults) ==
    /\ th[t].pc = "query"
    /\ \E fault \in faults :
          IF fault # "none"
          THEN /\ ToRelease(t, Raised)
               /\ UNCHANGED <<cache, clock>>
          ELSE /\ ToRelease(t, Returned(0))
               /\ IF th[t].op = "update_analysis_results"
                  THEN /\ cache' = ApplyUpsert(cache, U_NEWS, JsonDumps(FakeVerdict),
                                               clock + 1)
                       /\ clock' = clock + 1
                  ELSE UNCHANGED <<cache, clock>>
    /\ UNCHANGED <<main, users, db_pool, pool_gen, used, lost, ops>>

\* get_or_create_user: SELECT id, tier FROM users WHERE google_id = %s
SelectUser(t) ==
    /\ th[t].pc = "select"
    /\ \E fault \in {"none", "query_fail"} :
          LET found == {u \in users : u.google_id = th[t].gid}
          IN IF fault # "none" THEN ToRelease(t, Raised)
             ELSE IF found # {}
             THEN \E u \in found : ToRelease(t, Returned(u.id))
             ELSE th' = [th EXCEPT ![t].pc = "insert"]
    /\ UNCHANGED <<main, cache, users, db_pool, clock, pool_gen, used, lost, ops>>

\* get_or_create_user: INSERT INTO users ... RETURNING id, tier and the
\* commit; when a row of this google_id was committed meanwhile, the INSERT
\* fails if the table has a unique index on google_id and adds a second row
\* if not (the schema is not part of the sources)
InsertUser(t) ==
    /\ th[t].pc = "insert"
    /\ \E fault \in {"none", "query_fail"}, unique \in BOOLEAN :
          LET fresh == [id |-> Cardinality(users) + 1, google_id |-> th[t].gid,
                        tier |-> DEFAULT_USER_TIER]
              taken == \E u \in users : u.google_id = th[t].gid
          IN IF fault # "none" \/ (taken /\ unique)
             THEN /\ ToRelease(t, Raised)
                  /\ UNCHANGED users
             ELSE /\ ToRelease(t, Returned(fresh.id))
                  /\ users' = users \cup {fresh}
    /\ UNCHANGED <<main, cache, db_pool, clock, pool_gen, used, lost, ops>>

\* the finally clause: release_db_connection(conn) puts the connection back
\* if there is a pool; putconn refuses a connection of another pool, which
\* is then closed
ReleaseConn(t) ==
    /\ th[t].pc = "release"
    /\ th' = [th EXCEPT ![t].pc = "idle", ![t].conn = -1]
    /\ IF db_pool = "None"
       THEN /\ lost' = lost + 1
            /\ UNCHANGED used
       ELSE IF th[t].conn = pool_gen
       THEN /\ used' = [used EXCEPT ![pool_gen] = @ - 1]
            /\ UNCHANGED lost
       ELSE UNCHANGED <<used, lost>>
    /\ UNCHANGED <<main, cache, users, db_pool, clock, pool_gen, ops>>

\* two threads running any store operations
StoreThreads == {1, 2}

NextStore ==
    \E t \in StoreThreads :
        \/ BeginOp(t, StoreOps, MaxOps)
        \/ ConstructPool(t)
        \/ GetConnAdmit(t, {"none", "getconn_fail"})
        \/ GetConnConnect(t)
        \/ RunQuery(t, {"none", "query_fail"})
        \/ SelectUser(t)
        \/ InsertUser(t)
        \/ ReleaseConn(t)

SpecStore == Init /\ [][NextStore]_vars

\* MaxThreads threads, each looking up one URL, in a server whose pool was
\* created at startup and whose store works; thread t starts after thread
\* t - 1 (the threads are interchangeable)
NextPool ==
    \E t \in 1..MaxThreads :
        \/ (/\ t = ops + 1
            /\ db_pool = "pool"
            /\ BeginOp(t, {"check_database_for_url"}, MaxThreads))
        \/ GetConnAdmit(t, {"none"})
        \/ GetConnConnect(t)
        \/ RunQuery(t, {"none"})
        \/ ReleaseConn(t)

SpecPool == Init /\ [][NextPool]_vars

(***************************************************************************)
(* The tool functions called directly, with every provider behaviour       *)
(***************************************************************************)
CallFactCheck ==
    /\ call = NoCall
    /\ \E key \in ApiKeys, claims \in ClaimLists :
       \E outcomes \in [1..FACT_CHECK_CLAIM_LIMIT -> FcOutcomes] :
          call' = [tool |-> "fact_check_claims", key |-> key,
                   key_ok |-> KeyConfigured(key), claims |-> claims,
                   outcomes |-> outcomes,
                   ret |-> fact_check_claims(KeyConfigured(key), claims, outcomes)]
    /\ UNCHANGED <<pc, req, agent, reply, parsed, stored, result, response, cache, users,
                   db_pool, client, clock, started, side>>

\* check_database_for_url(url) against the store in any condition
CallLookup ==
    /\ call = NoCall
    /\ \E url \in AllUrls, fault \in DbFaults :
          LET r == check_database_for_url(url, db_pool, fault)
          IN /\ call' = [tool |-> "check_database_for_url", url |-> url,
                         pool |-> db_pool, fault |-> fault, ret |-> r]
             /\ db_pool' = r.pool
    /\ UNCHANGED <<pc, req, agent, reply, parsed, stored, result, response, cache, users,
                   client, clock, started, side>>

\* the record of one call search_google_news(query)
SearchCall(key, query, resp) ==
    [tool |-> "search_google_news", key |-> key, key_ok |-> KeyConfigured(key),
     query |-> query, resp |-> resp,
     ret |-> search_google_news(KeyConfigured(key), query, resp)]

\* search_google_news(query): every key and query with every kind of answer,
\* and every organic_results list of up to MaxItems entries with a key and a
\* plain query
CallSearch ==
    /\ call = NoCall
    /\ \/ \E key \in ApiKeys, query \in Queries, resp \in SearchResponses :
             call' = SearchCall(key, query, resp)
       \/ \E n \in 0..MaxItems :
          \E kinds \in [1..n -> ItemKinds] :
             call' = SearchCall("key", "election fraud",
                                [kind |-> "ok",
                                 items |-> [i \in 1..n |-> MakeItem(kinds[i], i)]])
    /\ UNCHANGED <<pc, req, agent, reply, parsed, stored, result, response, cache, users,
                   db_pool, client, clock, started, side>>

NextTools ==
    \/ CallFactCheck
    \/ CallLookup
    \/ CallSearch

SpecTools == Init /\ [][NextTools]_vars

(***************************************************************************)
(* Properties                                                              *)
(***************************************************************************)
Replied(p) == pc[p] = "done" /\ reply[p].kind = "text"

IsVerdict(value) == value.type = "dict" /\ VerdictKeys \subseteq value.keys

RowsOf(table, url) == {i \in 1..Len(table) : table[i].url = url}

FailedPositions(claims, outcomes) ==
    {i \in 1..Min(Len(claims), FACT_CHECK_CLAIM_LIMIT) : outcomes[i] \in FcFailures}

\* C1: when the request of at least one checked claim fails, fact_check_claims
\* raises one ApiError whose message holds the failure description of every
\* failed claim, and no list of records is returned
C1_NoPartialList ==
    (/\ call.tool = "fact_check_claims"
     /\ call.key_ok
     /\ FailedPositions(call.claims, call.outcomes) # {})
    => /\ call.ret.kind = "raise"
       /\ call.ret.exc = "ApiError"
       /\ call.ret.value = <<>>
       /\ \A i \in FailedPositions(call.claims, call.outcomes) :
             \E k \in 1..Len(call.ret.message) :
                call.ret.message[k] =
                    FcErrorMessage(call.outcomes[i],
                                   Truncate(call.claims[i], FACT_CHECK_QUERY_SIZE_LIMIT))

\* claim 2 of 3 failed, claims 1 and 3 had a review, and the call raised
C1_Witness ==
    /\ call.tool = "fact_check_claims"
    /\ call.key_ok
    /\ Len(call.claims) = 3
    /\ call.outcomes = <<"review", "timeout", "review">>
    /\ call.ret.kind = "raise"
    /\ Len(call.ret.message) = 1

\* C2: for a URL without extractable hostname the lookup returns invalid_url,
\* and an analysis whose lookup returned invalid_url ends with the fixed
\* LABEL_1 / 0.0 verdict whatever the model replies
C2_InvalidUrlFixedVerdict ==
    \A p \in Procs :
        /\ (extract_domain_from_url(req[p].url) = <<>> /\ agent[p].lookup # "none")
              => agent[p].lookup = "invalid_url"
        /\ (agent[p].lookup = "invalid_url" /\ Replied(p))
              => result[p] = InvalidUrlVerdict

\* C3: when the lookup returned not_found for a non-news domain, neither
\* search_google_news nor fact_check_claims is called in that analysis and it
\* ends with the fixed LABEL_0 / 0.5 verdict
C3_NonNewsShortCircuit ==
    \A p \in Procs :
        (/\ agent[p].lookup = VERDICT_NOT_FOUND
         /\ extract_domain_from_url(req[p].url) \in NonNewsDomains)
        => /\ ~agent[p].searched
           /\ ~agent[p].checked
           /\ Replied(p) => result[p] = NonNewsVerdict

\* C4: in every analysis the domain lookup is called, and no search or
\* fact-check call comes before the first lookup
C4_LookupFirst ==
    \A p \in Procs :
        /\ ~agent[p].early
        /\ Replied(p) => agent[p].lookup # "none"

\* C5: model output that parses as JSON without having the Verdict shape gives
\* an error result with the raw text, and the gateway still answers
C5_SchemaMismatchIsError ==
    \A p \in Procs :
        (Replied(p) /\ parsed[p] # NoValue /\ ~IsVerdict(parsed[p]))
        => /\ result[p].type = "dict"
           /\ {"error", "raw_response"} \subseteq result[p].keys
           /\ response[p].status # 0

\* C6: when the final text, fences removed, is no JSON, analyze_article
\* returns a dict with the keys error and raw_response, raw_response being the
\* fence-stripped text, and the gateway answers with a status other than 200
C6_InvalidJsonIsReported ==
    \A p \in Procs :
        (Replied(p) /\ ~JsonLoads(StripFences(reply[p].text)).ok)
        => /\ result[p].type = "dict"
           /\ result[p].keys = {"error", "raw_response"}
           /\ result[p].raw_response = StripFences(reply[p].text)
           /\ response[p].status \notin {0, 200}
           /\ response[p].body = result[p]

\* fenced prose came back: the error result carries the prose alone
C6_Witness ==
    \E p \in Procs :
        /\ Replied(p)
        /\ reply[p].text = <<FENCE, JSONTAG, WS, PROSE, WS, FENCE>>
        /\ result[p].raw_response = <<PROSE>>
        /\ response[p].status = 500

\* C7: a JSON object wrapped in code fences, with or without whitespace around
\* the fences, is returned as the object itself
C7_FencesStripped ==
    \A p \in Procs :
        \A doc \in JsonDocs :
            (Replied(p) /\ JsonValue(doc).type = "dict"
                        /\ reply[p].text \in FencedForms(doc))
            => result[p] = JsonValue(doc)

\* C8: once the model output parsed, the upsert keyed by the request URL is
\* attempted before analyze_article returns, and the caller gets exactly the
\* parsed value also when the upsert failed
C8_UpsertThenVerdict ==
    \A p \in Procs :
        /\ (Replied(p) /\ JsonLoads(StripFences(reply[p].text)).ok)
              => /\ stored[p].outcome # "none"
                 /\ result[p] = JsonLoads(StripFences(reply[p].text)).value
        /\ (result[p] # NoValue /\ parsed[p] # NoValue) => stored[p].outcome # "none"
        /\ stored[p].outcome = "ok"
              => \E i \in 1..Len(cache) :
                    /\ cache[i].url = req[p].url
                    /\ JsonLoads(cache[i].result_json).value = parsed[p]

\* the upsert failed and the caller has the verdict with status 200
C8_Witness ==
    \E p \in Procs :
        /\ pc[p] = "done"
        /\ stored[p].outcome = "failed"
        /\ result[p] = FakeVerdict
        /\ response[p] = [status |-> 200, body |-> FakeVerdict]
        /\ cache = <<>>

NoDuplicateUrl ==
    \A i, j \in 1..Len(cache) : cache[i].url = cache[j].url => i = j

UpsertOverwrites ==
    \A p \in Procs :
        (pc[p] = "store" /\ pc'[p] = "done" /\ stored'[p].outcome = "ok")
        => /\ \E i \in 1..Len(cache') :
                 cache'[i] = [url |-> req[p].url, result_json |-> JsonDumps(parsed[p]),
                              timestamp |-> clock']
           /\ Cardinality(RowsOf(cache', req[p].url)) = 1
           /\ \A i \in 1..Len(cache) : cache[i].url # req[p].url => cache'[i] = cache[i]
           /\ Len(cache') = Len(cache) + (IF RowsOf(cache, req[p].url) = {} THEN 1 ELSE 0)

\* C9: the cache never has two rows for one URL; an upsert leaves exactly one
\* row for its URL, holding the new result and time, and changes no other row
C9_OneEntryPerUrl == []NoDuplicateUrl /\ [][UpsertOverwrites]_vars

\* the same URL was written twice and the one row holds the second write
C9_Witness ==
    \E p \in Procs :
        /\ stored[p].outcome = "ok"
        /\ stored[p].at = 2
        /\ Len(cache) = 1
        /\ cache[1] = [url |-> req[p].url, result_json |-> JsonDumps(parsed[p]),
                       timestamp |-> 2]

\* C10: after two analyses of one URL wrote their results, the cache has one
\* row for the URL, the one of the later write, and each caller has the
\* verdict of its own analysis
C10_LastWriteWins ==
    \A p, q \in Procs :
        (/\ pc[p] = "done" /\ pc[q] = "done"
         /\ req[p].url = req[q].url
         /\ stored[p].outcome = "ok" /\ stored[q].outcome = "ok"
         /\ stored[p].at < stored[q].at)
        => /\ Cardinality(RowsOf(cache, req[q].url)) = 1
           /\ \A i \in RowsOf(cache, req[q].url) :
                 cache[i] = [url |-> req[q].url, result_json |-> JsonDumps(parsed[q]),
                             timestamp |-> stored[q].at]
           /\ result[p] = parsed[p]
           /\ result[q] = parsed[q]

\* two overlapping analyses of one URL with different verdicts both wrote
C10_Witness ==
    \E p, q \in Procs :
        /\ pc[p] = "done" /\ pc[q] = "done"
        /\ req[p].url = req[q].url
        /\ stored[p].outcome = "ok" /\ stored[q].outcome = "ok"
        /\ stored[p].at < stored[q].at
        /\ stored[p].racing
        /\ parsed[p] # parsed[q]
        /\ result[p] = parsed[p]

\* C11: an analysis whose last domain lookup raised DatabaseError is a hard
\* stop: it ends with an error result and not with a Verdict
C11_LookupFaultIsHardStop ==
    \A p \in Procs :
        (pc[p] = "done" /\ agent[p].lookup = "DatabaseError")
        => /\ HasErrorKey(result[p])
           /\ ~IsVerdict(result[p])

StoredVerdicts(domain) == {r.verdict : r \in {x \in UrlVerdicts : x.domain = domain}}

NormalizedHost(url) ==
    LET host == Lower(Netloc(url))
    IN IF StartsWith(host, <<"www.">>) THEN Tail(host) ELSE host

\* C13: for a URL with extractable host the domain key of the lookup is all
\* lowercase and has no leading www., and URLs whose hosts differ only in
\* letter case or a leading www. get the same key
C13_NormalizedDomainKey ==
    (call.tool = "check_database_for_url" /\ NormalizedHost(call.url) # <<>>)
    => LET domain == extract_domain_from_url(call.url)
       IN /\ domain = Lower(domain)
          /\ ~StartsWith(domain, <<"www.">>)
          /\ \A other \in AllUrls :
                NormalizedHost(other) = NormalizedHost(call.url)
                => extract_domain_from_url(other) = domain

\* C14: with n claims, fact_check_claims sends exactly min(n, 3) requests, the
\* i-th for the i-th claim, whether or not earlier requests failed, and none
\* for a claim at position 4 or later
C14_RequestPerCheckedClaim ==
    (call.tool = "fact_check_claims" /\ call.key_ok)
    => /\ Len(call.ret.requests) = Min(Len(call.claims), 3)
       /\ \A i \in 1..Len(call.ret.requests) : call.ret.requests[i].id = call.claims[i].id
       /\ \A i \in 1..Len(call.ret.requests) : i <= 3

\* four claims, the first request failed, and three requests were sent
C14_Witness ==
    /\ call.tool = "fact_check_claims"
    /\ call.key_ok
    /\ Len(call.claims) = 4
    /\ call.outcomes[1] = "request_error"
    /\ call.outcomes[2] = "review"
    /\ Len(call.ret.requests) = 3
    /\ call.ret.requests[3].id = "c"
    /\ call.ret.kind = "raise"

\* C15: every query fact_check_claims sends is at most 500 characters long and
\* is the first 500 characters of its claim, the whole claim when shorter
C15_QueryTruncated ==
    (call.tool = "fact_check_claims" /\ call.key_ok)
    => \A i \in 1..Len(call.ret.requests) :
          /\ call.ret.requests[i].len <= 500
          /\ call.ret.requests[i].id = call.claims[i].id
          /\ call.ret.requests[i].len =
                (IF call.claims[i].len > 500 THEN 500 ELSE call.claims[i].len)

\* a claim of 501 characters went out as a query of 500, one of 40 as it is
C15_Witness ==
    /\ call.tool = "fact_check_claims"
    /\ call.key_ok
    /\ Len(call.ret.requests) >= 2
    /\ call.claims[1].len = 40
    /\ call.ret.requests[1].len = 40
    /\ call.claims[2].len = 501
    /\ call.ret.requests[2].len = 500

\* C16: when no request failed, fact_check_claims returns, in the order of the
\* input claims, one record for each checked claim whose answer has a claim
\* with a review, built from the first review of the first claim of that
\* answer, and nothing for the other claims; the list is at most min(n, 3) long
C16_OneRecordPerClaim ==
    (call.tool = "fact_check_claims" /\ call.key_ok /\ call.ret.kind = "return")
    => LET checked == 1..Min(Len(call.claims), 3)
           hits == {i \in checked : call.outcomes[i] = "review"}
           value == call.ret.value
       IN /\ Len(value) <= Min(Len(call.claims), 3)
          /\ Len(value) = Cardinality(hits)
          /\ \A k \in 1..Len(value) :
                \E i \in hits :
                    /\ Cardinality({j \in hits : j <= i}) = k
                    /\ value[k].claim = call.claims[i].id
                    /\ value[k].review_rating = "rating 1.1"

\* three checked claims, the second without matching claim: two records, for
\* the first and the third claim
C16_Witness ==
    /\ call.tool = "fact_check_claims"
    /\ call.key_ok
    /\ Len(call.claims) = 4
    /\ call.outcomes = <<"review", "no_claims", "review">>
    /\ call.ret.kind = "return"
    /\ Len(call.ret.value) = 2
    /\ call.ret.value[1].claim = "a"
    /\ call.ret.value[2].claim = "c"

\* an entry the reshaping keeps: a non-empty JSON object
Kept(item) == item.dict /\ item.fields # {}

\* field of a result against key of the entry it must come from
FieldFrom(field, item, key, placeholder) ==
    /\ field # PyNone
    /\ key \notin item.fields => field = placeholder
    /\ (key \in item.fields /\ key \notin item.nulls) => field = <<key, item.id>>

\* C17: search_google_news returns at most 5 results; the k-th result comes
\* from the k-th usable entry among the first 5 entries of the answer; every
\* result has title, link and snippet, none of them null, with N/A, # and N/A
\* where the entry omits the field
C17_SearchResultsShape ==
    (call.tool = "search_google_news" /\ call.ret.kind = "return")
    => LET value == call.ret.value
           items == call.resp.items
       IN /\ Len(value) <= 5
          /\ \A k \in 1..Len(value) :
                /\ DOMAIN value[k] = {"title", "link", "snippet"}
                /\ \E i \in 1..Min(5, Len(items)) :
                      /\ Kept(items[i])
                      /\ Cardinality({j \in 1..i : Kept(items[j])}) = k
                      /\ FieldFrom(value[k].title, items[i], "title", <<"N/A">>)
                      /\ FieldFrom(value[k].link, items[i], "url", <<"#">>)
                      /\ FieldFrom(value[k].snippet, items[i], "description", <<"N/A">>)

\* six entries came back, among them one without title and link; five results
\* were returned, the second with the placeholders
C17_Witness ==
    /\ call.tool = "search_google_news"
    /\ call.ret.kind = "return"
    /\ Len(call.resp.items) = 6
    /\ \A i \in 1..6 : Kept(call.resp.items[i])
    /\ call.resp.items[2].fields = {"description"}
    /\ Len(call.ret.value) = 5
    /\ call.ret.value[2].title = <<"N/A">>
    /\ call.ret.value[2].link = <<"#">>
    /\ call.ret.value[5].title = <<"title", 5>>

\* C18: with a missing or placeholder key, search_google_news and
\* fact_check_claims raise ConfigurationError without having sent a request,
\* whatever the query or the claims are
C18_NoKeyFailsFast ==
    (call.tool \in {"search_google_news", "fact_check_claims"} /\ call.key \in {"", "YOUR_API_KEY"})
    => /\ call.ret.kind = "raise"
       /\ call.ret.exc = "ConfigurationError"
       /\ call.tool = "search_google_news" => call.ret.requests = 0
       /\ call.tool = "fact_check_claims" => call.ret.requests = <<>>

\* the placeholder key was in place when a search was asked for
C18_Witness ==
    /\ call.tool = "search_google_news"
    /\ call.key = "YOUR_API_KEY"
    /\ call.query = "election fraud"
    /\ call.resp.kind = "ok"
    /\ call.ret.exc = "ConfigurationError"
    /\ call.ret.requests = 0

\* C19: with a key configured, every failure of the provider call makes
\* search_google_news raise ApiError, and a call either returns a list or
\* raises ApiError, nothing else
C19_OnlyApiErrorEscapes ==
    (call.tool = "search_google_news" /\ call.key_ok)
    => /\ call.resp \in FailedResponses
             => (call.ret.kind = "raise" /\ call.ret.exc = "ApiError")
       /\ call.ret.kind = "raise" => call.ret.exc = "ApiError"

\* C20: the gateway answers 401 to a request without usable credentials, 400
\* to one whose body is no JSON or lacks url or article_text, 502 when the
\* result reports a tool error, 500 when it reports invalid model JSON, no
\* model text or an unexpected error, 200 when the result has no error key,
\* and never 200 when the result has one
C20_StatusMapping ==
    \A p \in Procs :
        pc[p] = "done"
        => LET status == response[p].status
               ran == result[p] # NoValue
           IN /\ req[p].auth \in {"no_header", "empty_token", "rejected"} => status = 401
              /\ (/\ req[p].user = "return"
                  /\ \/ req[p].body \in {"not_json", "malformed_json"}
                     \/ req[p].url = <<>>
                     \/ req[p].text = "")
                 => status = 400
              /\ (ran /\ HasErrorKey(result[p]) /\ result[p].error = MSG_TOOL)
                 => status = 502
              /\ (ran /\ HasErrorKey(result[p])
                      /\ result[p].error \in {MSG_JSON, MSG_NOTEXT, MSG_UNEXPECTED})
                 => status = 500
              /\ (ran /\ ~HasErrorKey(result[p])) => status = 200
              /\ (ran /\ status = 200) => ~HasErrorKey(result[p])

\* C21: on the video and audio endpoints the analysis logic runs only for a
\* user whose stored tier is paid; a request of a user of any other tier is
\* answered 403 and does not run the analysis; a request without
\* google_user_id is answered 400 and no user is looked up
C21_PaidTierGate ==
    media.endpoint # "none"
    => /\ media.ret.ran => media.ret.tier = "paid"
       /\ (media.ret.looked_up /\ media.ret.tier \notin {"none", "paid"})
             => (media.ret.status = 403 /\ ~media.ret.ran)
       /\ media.body.gid = ""
             => (media.ret.status = 400 /\ ~media.ret.looked_up)

\* C22: an analysis in which only search_google_news or fact_check_claims
\* failed does not end with the tool error, and analyze_article returns an
\* error result only when the model's final output was not parseable or the
\* domain lookup failed
C22_CollaboratorFailureDowngraded ==
    \A p \in Procs :
        (pc[p] = "done" /\ result[p] # NoValue)
        => /\ (agent[p].failed /\ agent[p].lookup # "DatabaseError")
                 => ~(HasErrorKey(result[p]) /\ result[p].error = MSG_TOOL)
           /\ (HasErrorKey(result[p]) /\ result[p].error \in {MSG_TOOL, MSG_UNEXPECTED})
                 => agent[p].lookup = "DatabaseError"

\* C23: one call of search_google_news sends at most one request, and one call
\* of fact_check_claims sends at most one request per checked claim, none of
\* them for a claim it already sent, also after failures
C23_NoRetries ==
    /\ call.tool = "search_google_news" => call.ret.requests <= 1
    /\ call.tool = "fact_check_claims"
          => /\ Len(call.ret.requests) <= Min(Len(call.claims), FACT_CHECK_CLAIM_LIMIT)
             /\ \A i, j \in 1..Len(call.ret.requests) :
                   call.ret.requests[i].id = call.ret.requests[j].id => i = j

\* the one search request timed out and the call raised after that request
C23_Witness ==
    /\ call.tool = "search_google_news"
    /\ call.key_ok
    /\ call.resp.kind = "timeout"
    /\ call.ret.exc = "ApiError"
    /\ call.ret.requests = 1

(***************************************************************************)
(* C24: get_db_connection initializes the pool at most once per call and   *)
(* only when the pool is absent; when the attempt fails the call raises    *)
(* DatabaseError and the pool is absent afterwards; initialize_db_pool     *)
(* never creates a pool while one exists.                                  *)
(***************************************************************************)
C24_InitOnlyWhenAbsent ==
    [][\A t \in 1..MaxThreads :
          (th[t].pc = "construct" /\ th'[t].pc # "construct") =>
              /\ db_pool = "None"
              /\ \/ db_pool' = "pool" /\ th'[t].pc = "getconn"
                 \/ db_pool' = "None" /\ th'[t].pc = "idle" /\ th'[t].out = Raised]_vars

(***************************************************************************)
(* C25: the number of connections checked out of the pool never exceeds    *)
(* DB_POOL_MAX_CONN, and a caller that finds all of them checked out does  *)
(* not wait: its operation ends with DatabaseError.                        *)
(***************************************************************************)
C25_PoolBounded ==
    /\ \A g \in 0..MaxPools : used[g] <= DB_POOL_MAX_CONN
    /\ \A t \in 1..MaxThreads :
          (th[t].pc = "getconn" /\ db_pool = "pool" /\ used[pool_gen] = DB_POOL_MAX_CONN) =>
              ENABLED (GetConnAdmit(t, {"none"}) /\ th'[t].out = Raised)

(***************************************************************************)
(* C26: a request that ends without the model's output having been decoded *)
(* (rejected by the gateway, tool error, no text, text that is no JSON,    *)
(* unexpected exception) leaves the Result Cache as it was; the cache      *)
(* changes only in update_analysis_results, called with the value          *)
(* json.loads produced from the model's text.                              *)
(***************************************************************************)
C26_ErrorLeavesCache ==
    [][/\ \A p \in Procs :
             (pc[p] # "store" /\ pc'[p] = "done") =>
                 /\ cache' = cache
                 /\ stored'[p].outcome = "none"
       /\ cache' # cache =>
             \E p \in Procs :
                 LET loaded == JsonLoads(StripFences(reply[p].text))
                 IN /\ pc[p] = "store"
                    /\ reply[p].kind = "text"
                    /\ loaded.ok
                    /\ parsed[p] = loaded.value
                    /\ stored'[p].outcome = "ok"]_vars

\* an analysis ended with the decode error, nothing was stored
C26_Witness ==
    \E p \in Procs :
        /\ pc[p] = "done"
        /\ reply[p].kind = "text"
        /\ ~JsonLoads(StripFences(reply[p].text)).ok
        /\ result[p].error = MSG_JSON
        /\ stored[p].outcome = "none"
        /\ cache = <<>>

(***************************************************************************)
(* C27: every connection a store function acquired is put back into the    *)
(* pool on every exit path: whenever no store operation is running, no     *)
(* connection is checked out of any pool and none was left behind.         *)
(***************************************************************************)
C27_AllReleased ==
    (\A t \in 1..MaxThreads : th[t].pc = "idle") =>
        /\ lost = 0
        /\ \A g \in 0..MaxPools : used[g] = 0

(***************************************************************************)
(* C28: on /analyze, analyze_article runs only for a request whose bearer  *)
(* token was verified, whose user is in the users table, and whose url and *)
(* article_text are non-empty; the token is checked before the payload, so *)
(* a request without a valid token is answered 401 whatever its payload.   *)
(***************************************************************************)
C28_AuthThenValidate ==
    \A p \in Procs :
        /\ (pc[p] \in {"agent", "store"} \/ result[p] # NoValue) =>
              /\ req[p].auth = "valid"
              /\ req[p].user = "return"
              /\ \E u \in users : u.google_id = "g1"
              /\ req[p].body = "object"
              /\ req[p].url # <<>>
              /\ req[p].text # ""
        /\ (pc[p] = "done" /\ req[p].auth # "valid") =>
              /\ response[p].status = 401
              /\ result[p] = NoValue
              /\ users = {}

\* a request with a rejected token and no JSON payload was answered 401
C28_Witness ==
    \E p \in Procs :
        /\ pc[p] = "done"
        /\ req[p].auth = "rejected"
        /\ req[p].body = "not_json"
        /\ req[p].url = <<>>
        /\ response[p].status = 401

(***************************************************************************)
(* C29: the Result Cache is written only for analyses the gateway reports  *)
(* as successful: a request whose analysis was upserted is answered with   *)
(* status 200, and the cached value is the body of the response.           *)
(***************************************************************************)
C29_CachedMeansReported ==
    \A p \in Procs :
        (pc[p] = "done" /\ stored[p].outcome = "ok") =>
            /\ response[p].status = 200
            /\ \E i \in 1..Len(cache) :
                  /\ cache[i].url = req[p].url
                  /\ JsonLoads(cache[i].result_json).value = response[p].body

(***************************************************************************)
(* C30: get_or_create_user creates at most one user per google_id, with    *)
(* the default tier; calls for the same google_id that returned, returned  *)
(* the same id; and among concurrent calls for an unknown google_id at     *)
(* most one INSERT is executed: none while a row of the google_id exists.  *)
(***************************************************************************)
OneUserPerGoogleId ==
    /\ \A u, v \in users : u.google_id = v.google_id => u = v
    /\ \A u \in users : u.tier = DEFAULT_USER_TIER
    /\ \A s, t \in 1..MaxThreads :
          (/\ th[s].op = "get_or_create_user" /\ th[s].out.kind = "return"
           /\ th[t].op = "get_or_create_user" /\ th[t].out.kind = "return"
           /\ th[s].gid = th[t].gid)
              => th[s].out.id = th[t].out.id

InsertOnlyIfUnknown ==
    \A t \in 1..MaxThreads :
        (th[t].pc = "insert" /\ th'[t].pc # "insert") =>
            ~\E u \in users : u.google_id = th[t].gid

C30_OneUserPerGoogleId == []OneUserPerGoogleId /\ [][InsertOnlyIfUnknown]_vars

====
